---- MODULE Spec2Model ----
(***************************************************************************)
(* GameKeeper record-reconciliation engine: name normalization, forced     *)
(* merges, identity grouping (deduplicateGames), merge resolution          *)
(* (mergeGameGroup, processRawGames) and merge suggestions.                *)
(*                                                                         *)
(* A title is a sequence of one-character strings, so that the regular     *)
(* expressions of normalize.ts act on it character by character.           *)
(***************************************************************************)
EXTENDS Integers, Sequences, FiniteSets, TLC

(***************************************************************************)
(* Characters                                                              *)
(***************************************************************************)
UpperCase ==
  <<"A","B","C","D","E","F","G","H","I","J","K","L","M",
    "N","O","P","Q","R","S","T","U","V","W","X","Y","Z">>

LowerCase ==
  <<"a","b","c","d","e","f","g","h","i","j","k","l","m",
    "n","o","p","q","r","s","t","u","v","w","x","y","z">>

Digits == {"0","1","2","3","4","5","6","7","8","9"}

\* [a-z] and [a-z0-9] of the slug pattern, \w and \s of the regular expressions
LowerLetters == {LowerCase[i] : i \in 1..Len(LowerCase)}

UpperLetters == {UpperCase[i] : i \in 1..Len(UpperCase)}

IsWordChar(c) == c \in LowerLetters \cup UpperLetters \cup Digits \cup {"_"}

IsSpace(c) == c \in {" ", "\t"}

\* String.prototype.toLowerCase, one character
LowerChar(c) ==
  IF c \in UpperLetters
  THEN LowerCase[CHOOSE i \in 1..Len(UpperCase) : UpperCase[i] = c]
  ELSE c

\* the positions from i to n where keep holds, in order
KeptPositions(keep, i, n) ==
  SelectSeq([j \in 1..n |-> j], LAMBDA j : j >= i /\ keep[j])

\* the characters of s at the positions of a list
CharactersAt(s, positions) == [k \in 1..Len(positions) |-> s[positions[k]]]

\* the characters of s at the positions where keep holds, in order
FilterFrom(s, keep, i) == CharactersAt(s, KeptPositions(keep, i, Len(s)))

\* \b at the position just before s[p] (p in 1..Len(s)+1)
IsBoundary(s, p) ==
  (p > 1 /\ p - 1 <= Len(s) /\ IsWordChar(s[p - 1]))
    # (p >= 1 /\ p <= Len(s) /\ IsWordChar(s[p]))

\* the pattern \b(w)\b matches s starting at position i
MatchesAt(s, w, i) ==
  /\ i + Len(w) - 1 <= Len(s)
  /\ \A k \in 1..Len(w) : s[i + k - 1] = w[k]
  /\ IsBoundary(s, i)
  /\ IsBoundary(s, i + Len(w))

\* the least and the greatest element of a non-empty set of numbers
Least(S) == CHOOSE k \in S : \A j \in S : k <= j

Greatest(S) == CHOOSE k \in S : \A j \in S : k >= j

\* the alternatives of \b(alts[1]|alts[2]|...)\b that match s at position i
MatchingAlternatives(s, alts, i) ==
  {k \in 1..Len(alts) : MatchesAt(s, alts[k], i)}

\* s.replace(/\b(alts[1]|alts[2]|...)\b/g, ''), scanning from position i:
\* at each position the first alternative that matches is removed and the
\* scan resumes after it
\* the scan at position p: st.out is the output so far, st.next the
\* position at which the scan resumes
RemoveWordsAt(s, alts, st, p) ==
  IF p < st.next THEN st
  ELSE IF MatchingAlternatives(s, alts, p) = {}
       THEN [out |-> Append(st.out, s[p]), next |-> p + 1]
       ELSE [out |-> st.out,
             next |-> p + Len(alts[Least(MatchingAlternatives(s, alts, p))])]

\* the scan over the positions lo..hi, one half after the other
RECURSIVE RemoveWordsSpan(_, _, _, _, _)
\* the second half, once the first half is done
RemoveWordsRest(s, alts, st, lo, hi) ==
  IF st.next >= 1 /\ lo <= hi THEN RemoveWordsSpan(s, alts, st, lo, hi) ELSE st

RemoveWordsSpan(s, alts, st, lo, hi) ==
  IF lo > hi THEN st
  ELSE IF lo = hi THEN RemoveWordsAt(s, alts, st, lo)
  ELSE RemoveWordsRest(s, alts,
                       RemoveWordsSpan(s, alts, st, lo, (lo + hi) \div 2),
                       (lo + hi) \div 2 + 1, hi)

RemoveWordsFrom(s, alts, i) ==
  RemoveWordsSpan(s, alts, [out |-> <<>>, next |-> i], i, Len(s)).out

\* the positions of s that hold no white space
Solid(s) == {i \in 1..Len(s) : ~IsSpace(s[i])}

\* String.prototype.trim
Trim(s) ==
  IF Solid(s) = {} THEN <<>>
  ELSE SubSeq(s, Least(Solid(s)), Greatest(Solid(s)))

\* String.prototype.includes
Includes(s, t) ==
  \E i \in 1..(Len(s) - Len(t) + 1) : SubSeq(s, i, i + Len(t) - 1) = t

TrademarkSymbols == {"(tm)", "(r)", "(c)"}

Punctuation == {":", "'", "-"}

Articles == << <<"t","h","e">>, <<"a">>, <<"a","n">> >>

Qualifiers ==
  << <<"g","o","t","y">>,
     <<"g","a","m","e"," ","o","f"," ","t","h","e"," ",
       "y","e","a","r"," ","e","d","i","t","i","o","n">> >>

(***************************************************************************)
(* Titles of the model.  The normal form, the slug and the similarity of   *)
(* these titles are computed once and looked up afterwards; any other      *)
(* string is computed on the spot.                                         *)
(***************************************************************************)
Portal2 == <<"P","o","r","t","a","l"," ","2">>

ThePortal2 == <<"T","h","e"," ","P","O","R","T","A","L"," ","2">>

Portal2Bang == <<"P","o","r","t","a","l"," ","2","!">>

Portal3 == <<"P","o","r","t","a","l"," ","3">>

Doom == <<"D","o","o","m">>

Titles == {Portal2, ThePortal2, Portal2Bang, Portal3, Doom}

\* titles handed directly to the functions on titles: the empty string, an
\* article alone, articles and qualifiers in the middle and at the end
The == <<"T","h","e">>

DoomUpper == <<"D","O","O","M">>

DoomThe2 == <<"D","o","o","m"," ","t","h","e"," ","2">>

DoomGoty == <<"D","o","o","m"," ","G","O","T","Y">>

DoomGoty2 == <<"D","o","o","m"," ","G","O","T","Y"," ","2">>

DoomComplete == <<"D","o","o","m"," ","C","o","m","p","l","e","t","e">>

DoomCompleteEdition ==
  <<"D","o","o","m"," ","C","o","m","p","l",
    "e","t","e"," ","E","d","i","t","i","o","n">>

DoomGameOfTheYearEdition ==
  <<"D","o","o","m"," ","G","a","m","e"," ","o","f"," ","t",
    "h","e"," ","Y","e","a","r"," ","E","d","i","t","i","o","n">>

NameInputs ==
  {<<>>, The, Doom, DoomUpper, DoomThe2, DoomGoty, DoomGoty2, DoomComplete,
   DoomCompleteEdition, DoomGameOfTheYearEdition, Portal2, Portal3}

\* titles of 19 characters that differ in one character
Portal2Adventures ==
  <<"P","o","r","t","a","l"," ","2"," ","A","d","v","e","n","t","u","r","e","s">>

Portal3Adventures ==
  <<"P","o","r","t","a","l"," ","3"," ","A","d","v","e","n","t","u","r","e","s">>

\* the length of the longest titles handed to generateMergeSuggestions
LongLength == 201

\* titles of LongLength characters that differ in the last character
LongTitle == [i \in 1..LongLength |-> "z"]

LongTitleY == [i \in 1..LongLength |-> IF i = LongLength THEN "y" ELSE "z"]

\* titles that are similar to each other without having the same normal form
SimilarTitles == {Portal2Adventures, Portal3Adventures, LongTitle, LongTitleY}

\* the titles whose normal form, slug and similarity are looked up
KnownTitles == Titles \cup NameInputs \cup SimilarTitles

\* normalize.ts, normalizeGameName (the definition in force: the later one
\* of the file), step by step
ToLowerCase(s) == [i \in 1..Len(s) |-> LowerChar(s[i])]

\* .replace(/[(tm)(r)(c)]/g, '')
RemoveTrademarks(s) == SelectSeq(s, LAMBDA c : c \notin TrademarkSymbols)

\* .replace(/[:'-]/g, ' ')
PunctuationToSpace(s) ==
  [i \in 1..Len(s) |-> IF s[i] \in Punctuation THEN " " ELSE s[i]]

\* .replace(/\s+/g, ' ')
CollapseSpaces(s) ==
  FilterFrom([i \in 1..Len(s) |-> IF IsSpace(s[i]) THEN " " ELSE s[i]],
             [i \in 1..Len(s) |-> ~(IsSpace(s[i]) /\ i > 1 /\ IsSpace(s[i - 1]))],
             1)

NormalizeString(name) ==
  Trim(RemoveWordsFrom(
         RemoveWordsFrom(
           CollapseSpaces(PunctuationToSpace(RemoveTrademarks(ToLowerCase(name)))),
           Articles, 1),
         Qualifiers, 1))

NormalizedTitles == [t \in KnownTitles |-> NormalizeString(t)]

normalizeGameName(name) ==
  IF name \in KnownTitles THEN NormalizedTitles[name] ELSE NormalizeString(name)

\* generateCanonicalId: the slug of the normalized name
NonAlphanumericToDash(s) ==
  [i \in 1..Len(s) |-> IF s[i] \in LowerLetters \cup Digits THEN s[i] ELSE "-"]

CollapseDashes(s) ==
  FilterFrom(s, [i \in 1..Len(s) |-> ~(s[i] = "-" /\ i > 1 /\ s[i - 1] = "-")], 1)

\* .replace(/^-|-$/g, '')
StripDashes(s) ==
  SubSeq(s,
         IF Len(s) > 0 /\ s[1] = "-" THEN 2 ELSE 1,
         IF Len(s) > 0 /\ s[Len(s)] = "-" THEN Len(s) - 1 ELSE Len(s))

SlugOf(name) ==
  StripDashes(CollapseDashes(NonAlphanumericToDash(normalizeGameName(name))))

TitleSlugs == [t \in KnownTitles |-> SlugOf(t)]

generateCanonicalId(name) ==
  IF name \in KnownTitles THEN TitleSlugs[name] ELSE SlugOf(name)

(***************************************************************************)
(* Types (types/game.ts, types/overrides.ts)                               *)
(***************************************************************************)
\* variant: the subscription outranks every platform
PLATFORM_PRIORITY_GamepassFirst ==
  [gamepass |-> 1, steam |-> 2, xbox |-> 3, epic |-> 4,
   gog |-> 5, amazon |-> 6, manual |-> 7]

\* Record<Source, number>: lower number = higher priority
PLATFORM_PRIORITY ==
  [steam |-> 1, xbox |-> 2, epic |-> 3, gog |-> 4,
   amazon |-> 5, gamepass |-> 6, manual |-> 7]

Source == DOMAIN PLATFORM_PRIORITY

\* an optional number that is absent (steamAppId?, playtimeHours?); adapters
\* only produce steamAppId > 0 and playtimeHours >= 0
Undefined == 0 - 1

\* RawGameData; externalId tells the objects of one list apart
RawGame(source, externalId, name, steamAppId, playtimeHours) ==
  [source |-> source, externalId |-> externalId, name |-> name,
   steamAppId |-> steamAppId, playtimeHours |-> playtimeHours,
   coverImageUrl |-> Undefined, releaseDate |-> Undefined, genres |-> Undefined]

\* ForceMergeRule; an absent canonicalName is the empty string (both falsy)
ForceMergeRule(games, canonicalName) ==
  [games |-> games, canonicalName |-> canonicalName]

\* string | null
Null == [isNull |-> TRUE, value |-> <<>>]

Str(v) == [isNull |-> FALSE, value |-> v]

\* JavaScript truthiness of a string | null
Truthy(r) == ~r.isNull /\ r.value # <<>>

VARIABLES
  overrides,     \* overrides.ts: the module-level `overrides`
  rawGames,      \* the raw records handed to the engine
  gameGroups,    \* result of deduplicateGames: Map in insertion order
  unifiedGames,  \* result of processRawGames
  suggestions,   \* result of generateMergeSuggestions
  unified,       \* result of a direct call mergeGameGroup(rawGames)
  pc,            \* position of the caller
  arg1,         \* first title handed to a function of normalize.ts / overrides.ts
  arg2,         \* second title handed to it
  result,        \* what the last call returned
  ownedXboxFile,    \* data/owned-xbox-games.json
  interestsFile,    \* data/gamepass-interests.json
  unavailableFile,  \* data/gamepass-unavailable.json
  gamePassCatalog,  \* the Game Pass catalog of the run
  playedGames,      \* the played records of the run
  run               \* number of the run over the same data directory

\* the arguments and the result of a direct call of a function on titles
nameVars == <<arg1, arg2, result>>

\* the data files and the inputs of the functions of xbox-gamepass.ts
gamePassVars ==
  <<ownedXboxFile, interestsFile, unavailableFile, gamePassCatalog, playedGames, run>>

vars ==
  <<overrides, rawGames, gameGroups, unifiedGames, suggestions, unified, pc,
    nameVars, gamePassVars>>

(***************************************************************************)
(* overrides.ts                                                            *)
(***************************************************************************)
\* `let overrides: GameOverrides | null = null`
NullOverrides == [loaded |-> FALSE, forceMerge |-> <<>>]

\* the catch branch of loadOverrides
DefaultOverrides == [loaded |-> TRUE, forceMerge |-> <<>>]

\* a rule covers a normalized title
\* variant: a rule covers a title only by equality
Covers_ExactOnly(g, norm) == g = norm

Covers(g, norm) == g = norm \/ Includes(norm, g) \/ Includes(g, norm)

RuleHas(rule, norm) ==
  \E k \in 1..Len(rule.games) : Covers(normalizeGameName(rule.games[k]), norm)

\* the rules that cover both normalized titles
MatchingRules(norm1, norm2) ==
  {r \in 1..Len(overrides.forceMerge) :
     /\ RuleHas(overrides.forceMerge[r], norm1)
     /\ RuleHas(overrides.forceMerge[r], norm2)}

\* rule.canonicalName || rule.games[0]
RuleName(rule) ==
  Str(IF rule.canonicalName # <<>> THEN rule.canonicalName ELSE rule.games[1])

\* the loop returns at the first rule that covers both
FirstRuleName(hits) ==
  IF hits = {} THEN Null ELSE RuleName(overrides.forceMerge[Least(hits)])

shouldForceMerge(name1, name2) ==
  IF ~overrides.loaded THEN Null
  ELSE FirstRuleName(MatchingRules(normalizeGameName(name1),
                                   normalizeGameName(name2)))

(***************************************************************************)
(* normalize.ts: matching and similarity                                   *)
(***************************************************************************)
Min3(a, b, c) ==
  IF a <= b /\ a <= c THEN a ELSE IF b <= c THEN b ELSE c

\* row i of the matrix from row i-1 (prev); row[k] holds matrix[i][k-1]
LevCell(str1, c, prev, row, j) ==
  IF c = str1[j] THEN prev[j]
  ELSE Min3(prev[j] + 1, row[j] + 1, prev[j + 1] + 1)

\* the inner loop for j in lo..hi, one half after the other
RECURSIVE LevRowSpan(_, _, _, _, _, _)
\* the second half, once the first half is done
LevRowRest(str1, c, prev, row, lo, hi) ==
  IF Len(row) = lo /\ lo <= hi THEN LevRowSpan(str1, c, prev, row, lo, hi) ELSE row

LevRowSpan(str1, c, prev, row, lo, hi) ==
  IF lo > hi THEN row
  ELSE IF lo = hi THEN Append(row, LevCell(str1, c, prev, row, lo))
  ELSE LevRowRest(str1, c, prev,
                  LevRowSpan(str1, c, prev, row, lo, (lo + hi) \div 2),
                  (lo + hi) \div 2 + 1, hi)

LevRow(str1, c, prev, row, j) == LevRowSpan(str1, c, prev, row, j, Len(str1))

\* the outer loop for i in lo..hi, one half after the other: the last row
RECURSIVE LevRowsSpan(_, _, _, _, _)
\* the second half, once the first half is done
LevRowsRest(str1, str2, prev, lo, hi) ==
  IF Len(prev) = Len(str1) + 1 /\ lo <= hi
  THEN LevRowsSpan(str1, str2, prev, lo, hi)
  ELSE prev

LevRowsSpan(str1, str2, prev, lo, hi) ==
  IF lo > hi THEN prev
  ELSE IF lo = hi THEN LevRow(str1, str2[lo], prev, <<lo>>, 1)
  ELSE LevRowsRest(str1, str2,
                   LevRowsSpan(str1, str2, prev, lo, (lo + hi) \div 2),
                   (lo + hi) \div 2 + 1, hi)

LevRows(str1, str2, prev, i) ==
  LevRowsSpan(str1, str2, prev, i, Len(str2))[Len(str1) + 1]

levenshteinDistance(str1, str2) ==
  LevRows(str1, str2, [k \in 1..(Len(str1) + 1) |-> k - 1], 1)

\* Math.max(str1.length, str2.length)
MaxLength(a, b) == IF Len(a) >= Len(b) THEN Len(a) ELSE Len(b)

\* variant: the substring and edit-distance matching of the earlier
\* definition of the file (a match at 85% similarity)
areNamesMatching_Fuzzy(name1, name2) ==
  \/ normalizeGameName(name1) = normalizeGameName(name2)
  \/ Includes(normalizeGameName(name1), normalizeGameName(name2))
  \/ Includes(normalizeGameName(name2), normalizeGameName(name1))
  \/ 100 * (MaxLength(normalizeGameName(name1), normalizeGameName(name2))
              - levenshteinDistance(normalizeGameName(name1), normalizeGameName(name2)))
       >= 85 * MaxLength(normalizeGameName(name1), normalizeGameName(name2))

areNamesMatching(name1, name2) ==
  IF Truthy(shouldForceMerge(name1, name2)) THEN TRUE
  ELSE normalizeGameName(name1) = normalizeGameName(name2)

minSubstringLength == 10

\* a similarity score is the exact fraction num / den
Score(num, den) == [num |-> num, den |-> den]

\* variant: no exact-match branch before the division
NormalizedSimilarity_NoExactMatch(normalized1, normalized2) ==
  IF /\ Len(normalized1) >= minSubstringLength
     /\ Len(normalized2) >= minSubstringLength
     /\ (Includes(normalized1, normalized2) \/ Includes(normalized2, normalized1))
  THEN Score(95, 100)
  ELSE Score(MaxLength(normalized1, normalized2)
               - levenshteinDistance(normalized1, normalized2),
             MaxLength(normalized1, normalized2))

NormalizedSimilarity(normalized1, normalized2) ==
  IF normalized1 = normalized2 THEN Score(1, 1)
  ELSE IF /\ Len(normalized1) >= minSubstringLength
          /\ Len(normalized2) >= minSubstringLength
          /\ (Includes(normalized1, normalized2) \/ Includes(normalized2, normalized1))
       THEN Score(95, 100)
       ELSE Score(MaxLength(normalized1, normalized2)
                    - levenshteinDistance(normalized1, normalized2),
                  MaxLength(normalized1, normalized2))

SimilarityOf(name1, name2) ==
  NormalizedSimilarity(normalizeGameName(name1), normalizeGameName(name2))

TitleSimilarities ==
  [p \in {<<a, b>> : a \in KnownTitles, b \in KnownTitles} |->
     SimilarityOf(p[1], p[2])]

calculateNameSimilarity(name1, name2) ==
  IF name1 \in KnownTitles /\ name2 \in KnownTitles
  THEN TitleSimilarities[<<name1, name2>>]
  ELSE SimilarityOf(name1, name2)

\* score >= pct / 100
AtLeast(score, pct) == score.num * 100 >= pct * score.den

\* Math.round(score * 100): hundredths, halves rounded up
RoundHundredths(score) == (200 * score.num + score.den) \div (2 * score.den)


(***************************************************************************)
(* deduplicate.ts                                                          *)
(***************************************************************************)
\* a Map key: `steam:${steamAppId}` or `name:${slug}`
SteamKey(steamAppId) == [kind |-> "steam", id |-> steamAppId, slug |-> <<>>]

NameKey(slug) == [kind |-> "name", id |-> Undefined, slug |-> slug]

\* a Map entry; the Map is the sequence of its entries in insertion order
Entry(key, games) == [key |-> key, games |-> games]

MapHas(map, key) == \E i \in 1..Len(map) : map[i].key = key

MapIndex(map, key) == CHOOSE i \in 1..Len(map) : map[i].key = key

\* Map.prototype.set: an existing key keeps its position and gets the new value
MapSet(map, key, games) ==
  IF MapHas(map, key)
  THEN [map EXCEPT ![MapIndex(map, key)].games = games]
  ELSE Append(map, Entry(key, games))

\* gameGroups.get(key)!.push(game)
AppendToKey(map, key, game) ==
  [map EXCEPT ![MapIndex(map, key)].games = Append(@, game)]

\* variant: the branch always sets a fresh array for the key
GroupBySteamAppId_Overwrite(groups, game) ==
  MapSet(groups, SteamKey(game.steamAppId), <<game>>)

\* the branch `if (game.steamAppId)`: group by Steam AppID
GroupBySteamAppId(groups, game) ==
  AppendToKey(IF MapHas(groups, SteamKey(game.steamAppId)) THEN groups
              ELSE MapSet(groups, SteamKey(game.steamAppId), <<>>),
              SteamKey(game.steamAppId), game)

\* otherwise: the first group whose first record matches by name, or a new group
MatchingGroups(groups, game) ==
  {i \in 1..Len(groups) : areNamesMatching(game.name, groups[i].games[1].name)}

GroupByNameIn(groups, matching, game) ==
  IF matching # {}
  THEN [groups EXCEPT ![Least(matching)].games = Append(@, game)]
  ELSE MapSet(groups, NameKey(generateCanonicalId(game.name)), <<game>>)

GroupByName(groups, game) ==
  GroupByNameIn(groups, MatchingGroups(groups, game), game)

\* one iteration of the loop of deduplicateGames
DeduplicateStep(groups, game) ==
  IF game.steamAppId > 0
  THEN GroupBySteamAppId(groups, game)
  ELSE GroupByName(groups, game)

RECURSIVE DeduplicateFrom(_, _, _)
DeduplicateFrom(games, groups, i) ==
  IF i > Len(games) THEN groups
  ELSE DeduplicateFrom(games, DeduplicateStep(groups, games[i]), i + 1)

deduplicateGames(games) == DeduplicateFrom(games, <<>>, 1)

\* [...games].sort by PLATFORM_PRIORITY: a stable sort on the priority
RECURSIVE SortFrom(_, _)
SortFrom(games, rank) ==
  IF rank > Cardinality(Source) THEN <<>>
  ELSE SelectSeq(games, LAMBDA g : PLATFORM_PRIORITY[g.source] = rank)
         \o SortFrom(games, rank + 1)

\* [...new Set(seq)]: the distinct elements in order of first occurrence
Distinct(seq) ==
  FilterFrom(seq, [i \in 1..Len(seq) |-> \A j \in 1..(i - 1) : seq[j] # seq[i]], 1)

RECURSIVE SumPlaytime(_, _)
SumPlaytime(games, i) ==
  IF i > Len(games) THEN 0
  ELSE (IF games[i].playtimeHours > 0 THEN games[i].playtimeHours ELSE 0)
         + SumPlaytime(games, i + 1)

\* a canonicalId: `steam:${steamAppId}` or the slug itself
SteamId(steamAppId) == [kind |-> "steam", id |-> steamAppId, slug |-> <<>>]

SlugId(slug) == [kind |-> "slug", id |-> Undefined, slug |-> slug]

\* variant: the group is left in input order
SortByPriority_InputOrder(games) == games

SortByPriority(games) == SortFrom(games, 1)

\* variant: no exclusion rule
OwnedSources_NoExclusion(allSources) == allSources

\* the Xbox/Game Pass exclusion rule on the distinct sources
OwnedSources(allSources) ==
  IF \E i \in 1..Len(allSources) : allSources[i] = "xbox"
  THEN SelectSeq(allSources, LAMBDA s : s # "gamepass")
  ELSE allSources

\* mergeGameGroup on a non-empty group
AllSources(sorted) == Distinct([i \in 1..Len(sorted) |-> sorted[i].source])

\* canonicalId: from the primary record alone
CanonicalIdOf(primary) ==
  IF primary.steamAppId > 0
  THEN SteamId(primary.steamAppId)
  ELSE SlugId(generateCanonicalId(primary.name))

\* canonicalName: the force-merge name of the first two records of the group
CanonicalName(games) ==
  IF Len(games) > 1 THEN shouldForceMerge(games[1].name, games[2].name) ELSE Null

GameName(canonicalName, primary) ==
  IF Truthy(canonicalName) /\ canonicalName.value # primary.name
  THEN canonicalName.value
  ELSE primary.name

\* totalPlaytime > 0 ? totalPlaytime : undefined
Playtime(totalPlaytime) == IF totalPlaytime > 0 THEN totalPlaytime ELSE Undefined

\* the unified game of a group and its records sorted by priority
UnifiedGame(games, sorted) ==
  [canonicalId |-> CanonicalIdOf(sorted[1]),
   name |-> GameName(CanonicalName(games), sorted[1]),
   primarySource |-> sorted[1].source,
   ownedSources |-> OwnedSources(AllSources(sorted)),
   steamAppId |-> sorted[1].steamAppId,
   playtimeHours |-> Playtime(SumPlaytime(games, 1)),
   coverImageUrl |-> sorted[1].coverImageUrl,
   releaseDate |-> sorted[1].releaseDate,
   genres |-> sorted[1].genres]

mergeGameGroup(games) == UnifiedGame(games, SortByPriority(games))

\* processRawGames: every group of deduplicateGames merged, in Map order
\* (mergeGameGroup only throws on an empty group, and no group is empty)
MergeGroups(groups) == [i \in 1..Len(groups) |-> mergeGameGroup(groups[i].games)]

processRawGames(games) == MergeGroups(deduplicateGames(games))

(***************************************************************************)
(* suggestions.ts                                                          *)
(***************************************************************************)
\* `${game.name}|${game.source}`
PairKey(game) == <<game.name, game.source>>

\* `processed` is created empty and nothing is ever added to it
processed == {}

SuggestionReason(similarity) ==
  IF AtLeast(similarity, 95)
  THEN "Substring match - likely same game with different edition name"
  ELSE IF AtLeast(similarity, 90)
       THEN "Very high similarity - likely same game with minor name variation"
       ELSE "High similarity - possibly same game or related (e.g., sequel)"

\* the body of the inner loop for the pair (i, j): the suggestions it pushes
SuggestionsOf(game1, game2, similarity) ==
  IF PairKey(game1) \in processed \/ PairKey(game2) \in processed THEN <<>>
  ELSE IF game1.source = game2.source THEN <<>>
  ELSE IF AtLeast(similarity, 85) /\ similarity.num < similarity.den
       THEN << [games |-> <<game1.name, game2.name>>,
                sources |-> <<game1.source, game2.source>>,
                similarity |-> RoundHundredths(similarity),
                reason |-> SuggestionReason(similarity)] >>
       ELSE <<>>

SuggestionsOfPair(games, i, j) ==
  SuggestionsOf(games[i], games[j],
                calculateNameSimilarity(games[i].name, games[j].name))

RECURSIVE SuggestionsFrom(_, _, _)
SuggestionsFrom(games, i, j) ==
  IF i > Len(games) THEN <<>>
  ELSE IF j > Len(games) THEN SuggestionsFrom(games, i + 1, i + 2)
  ELSE SuggestionsOfPair(games, i, j) \o SuggestionsFrom(games, i, j + 1)

\* Array.prototype.sort((a, b) => b.similarity - a.similarity): stable, descending
RECURSIVE SortBySimilarity(_, _)
SortBySimilarity(list, levels) ==
  IF levels = {} THEN <<>>
  ELSE SelectSeq(list, LAMBDA x : x.similarity = Greatest(levels))
         \o SortBySimilarity(list, levels \ {Greatest(levels)})

SortSuggestions(found) ==
  SortBySimilarity(found, {found[k].similarity : k \in 1..Len(found)})

generateMergeSuggestions(games) == SortSuggestions(SuggestionsFrom(games, 1, 2))

(***************************************************************************)
(* xbox-gamepass.ts                                                        *)
(***************************************************************************)
\* GamePassGame
GamePassGame(id, title, available) ==
  [id |-> id, title |-> title, available |-> available]

\* UnavailableGame
UnavailableGame(name, reason, lastSeen, wasPlayed) ==
  [name |-> name, reason |-> reason, lastSeen |-> lastSeen, wasPlayed |-> wasPlayed]

\* a JSON file that cannot be read or parsed
Unreadable == [readable |-> FALSE, content |-> <<>>]

\* a JSON file and its list
Readable(content) == [readable |-> TRUE, content |-> content]

\* names.map(normalizeGameName)
NormalizeAll(names) == [i \in 1..Len(names) |-> normalizeGameName(names[i])]

\* the elements of a sequence
Elements(seq) == {seq[i] : i \in 1..Len(seq)}

\* loadOwnedXboxGames: the Set is only asked for membership
loadOwnedXboxGames ==
  IF ownedXboxFile.readable THEN Elements(NormalizeAll(ownedXboxFile.content)) ELSE {}

\* loadGamePassInterests: the Set in insertion order
loadGamePassInterests ==
  IF interestsFile.readable THEN Distinct(NormalizeAll(interestsFile.content)) ELSE <<>>

\* loadUnavailableGames: the unavailableGames of the report
loadUnavailableGames ==
  IF unavailableFile.readable THEN unavailableFile.content ELSE <<>>

isOwnedOnXbox(gameName) == normalizeGameName(gameName) \in loadOwnedXboxGames

isAvailableOnGamePass(gameName, catalog) ==
  \E i \in 1..Len(catalog) :
    catalog[i].available /\ normalizeGameName(catalog[i].title) = normalizeGameName(gameName)

\* catalogNames of processGamePassAvailability
CatalogNames(catalog) ==
  {normalizeGameName(catalog[i].title) : i \in {j \in 1..Len(catalog) : catalog[j].available}}

\* entry pushed for a played record
LeftCatalog(game, now) == UnavailableGame(game.name, "left-catalog", now, TRUE)

\* the first loop pushes an entry for the record
HasLeftCatalog(game, ownedXbox, catalogNames) ==
  /\ game.source = "xbox"
  /\ normalizeGameName(game.name) \notin ownedXbox
  /\ normalizeGameName(game.name) \notin catalogNames

\* the records of a list for which the first loop pushes an entry
RecordsLeftCatalog(played, ownedXbox, catalogNames) ==
  SelectSeq(played, LAMBDA game : HasLeftCatalog(game, ownedXbox, catalogNames))

\* the first loop: played Xbox games neither owned nor in the catalog
LeftCatalogEntries(left, now) == [i \in 1..Len(left) |-> LeftCatalog(left[i], now)]

\* entry pushed for an interest
InterestUnavailable(gameName, now) ==
  UnavailableGame(gameName, "interest-unavailable", now, FALSE)

\* variant: every interest is reported, in the catalog or not
InterestsNotIn_All(interests, catalogNames) ==
  SelectSeq(interests, LAMBDA gameName : TRUE)

\* the interests that are not in the catalog
InterestsNotIn(interests, catalogNames) ==
  SelectSeq(interests, LAMBDA gameName : gameName \notin catalogNames)

\* the second loop, then-branch: interests not in the catalog
InterestEntries(missing, now) ==
  [i \in 1..Len(missing) |-> InterestUnavailable(missing[i], now)]

\* currentUnavailable.unavailableGames.find(u => normalizeGameName(u.name) === gameName)
WasUnavailable(gameName, currentUnavailable) ==
  \E i \in 1..Len(currentUnavailable) :
    normalizeGameName(currentUnavailable[i].name) = gameName

\* the second loop, else-branch: interests in the catalog that were unavailable
ReturnedGames(interests, catalogNames, currentUnavailable) ==
  SelectSeq(interests,
            LAMBDA gameName : /\ gameName \in catalogNames
                              /\ WasUnavailable(gameName, currentUnavailable))

\* now: what `new Date().toISOString()` returns during the call
processGamePassAvailability(played, catalog, now) ==
  [unavailable |->
     LeftCatalogEntries(RecordsLeftCatalog(played, loadOwnedXboxGames, CatalogNames(catalog)),
                        now)
       \o InterestEntries(InterestsNotIn(loadGamePassInterests, CatalogNames(catalog)), now),
   returned |->
     ReturnedGames(loadGamePassInterests, CatalogNames(catalog), loadUnavailableGames)]

resolveXboxSource(gameName, catalog) ==
  IF isOwnedOnXbox(gameName) THEN "xbox"
  ELSE IF isAvailableOnGamePass(gameName, catalog) THEN "gamepass" ELSE "xbox"

shouldSyncToNotion(game, catalog) ==
  IF game.source # "xbox" /\ game.source # "gamepass" THEN TRUE
  ELSE IF isOwnedOnXbox(game.name) THEN TRUE
  ELSE isAvailableOnGamePass(game.name, catalog)

\* g.available && normalizeGameName(g.title) === interestName
IsCatalogGame(g, interestName) ==
  g.available /\ normalizeGameName(g.title) = interestName

\* gamePassCatalog.find(...): the first such entry
CatalogGame(catalog, interestName) ==
  catalog[Least({i \in 1..Len(catalog) : IsCatalogGame(catalog[i], interestName)})]

\* the interests that have a catalogGame
InterestsIn(interests, catalog) ==
  SelectSeq(interests,
            LAMBDA interestName :
              \E i \in 1..Len(catalog) : IsCatalogGame(catalog[i], interestName))

\* the entry pushed to gamesToSync
InterestGame(catalogGame, wasPlayed) ==
  RawGame("gamepass", <<"gamepass-interest-", catalogGame.id>>, catalogGame.title,
          Undefined, IF wasPlayed THEN Undefined ELSE 0)

\* gamesToSync for the interests that have a catalogGame
InterestGames(found, catalog, playedNames) ==
  [i \in 1..Len(found) |->
     InterestGame(CatalogGame(catalog, found[i]), found[i] \in playedNames)]

\* playedNames of getInterestGamesToSync
PlayedNames(played) == {normalizeGameName(played[i].name) : i \in 1..Len(played)}

getInterestGamesToSync(catalog, played) ==
  InterestGames(InterestsIn(loadGamePassInterests, catalog), catalog, PlayedNames(played))

(***************************************************************************)
(* Inputs                                                                  *)
(***************************************************************************)
SteamAppIds == {400}

\* at most MaxGames raw records in one run
MaxGames == 3

\* the records of a list are distinct objects: each carries its position as
\* externalId, and a cover image, release date and genres of its own
Numbered(f) ==
  [i \in DOMAIN f |->
     [f[i] EXCEPT !.externalId = i, !.coverImageUrl = i,
                  !.releaseDate = i, !.genres = i]]

\* list is a list of at most MaxGames records of a pool
IsListOf(list, pool) ==
  \E n \in 0..MaxGames : \E f \in [1..n -> pool] : list = Numbered(f)

\* records that differ in identity: source, title and numeric ID (carried by
\* two of the titles)
IdentityRecords ==
  {RawGame(src, 0, t, Undefined, Undefined) : src \in {"epic", "gog"}, t \in Titles}
    \cup {RawGame(src, 0, t, id, Undefined) :
            src \in {"epic", "gog"}, t \in {Portal2, Portal3}, id \in SteamAppIds}

\* records of two sources over titles that are similar to each other
SimilarRecords ==
  {RawGame(src, 0, t, Undefined, Undefined) : src \in {"epic", "gog"}, t \in SimilarTitles}

\* records that differ in playtime, over titles whose slugs collide
PlaytimeRecords ==
  {RawGame("epic", 0, t, Undefined, h) :
     t \in {Portal2, Portal2Bang}, h \in {Undefined, 0, 3}}

\* records of one group that differ in source, title and numeric ID
GroupRecords ==
  {RawGame(src, 0, t, id, Undefined) :
     src \in {"steam", "xbox", "epic", "gamepass"}, t \in {Portal2, Portal3},
     id \in SteamAppIds \cup {Undefined}}

\* the contents of data/overrides.json when it parses
OverrideFiles ==
  { [loaded |-> TRUE,
     forceMerge |-> << ForceMergeRule(<<Portal2, Doom>>, Portal2),
                       ForceMergeRule(<<Doom, Portal3>>, <<>>) >>] }

NoResult == [status |-> "none"]

\* at most MaxPlayed played records in one run
MaxPlayed == 1

\* at most MaxRuns runs over the same data directory
MaxRuns == 2

\* played records: bought on Xbox, played under the subscription, or from
\* another platform
PlayedRecords ==
  {RawGame(src, 0, t, Undefined, 3) : src \in {"xbox", "gamepass", "steam"}, t \in {Doom, Portal2}}

\* list is a list of at most MaxPlayed played records
IsPlayedList(list) ==
  \E n \in 0..MaxPlayed : \E f \in [1..n -> PlayedRecords] : list = Numbered(f)

\* data/owned-xbox-games.json: missing, or a list of owned titles
OwnedXboxFiles == {Unreadable, Readable(<<Doom>>), Readable(<<ThePortal2>>)}

\* data/gamepass-interests.json: missing, or a list of wanted titles
InterestsFiles ==
  {Unreadable, Readable(<<Doom>>), Readable(<<ThePortal2, Doom>>), Readable(<<DoomThe2>>)}

\* the times at which a call may read the clock
Times == {"2025-01-01T00:00:00.000Z", "2025-01-02T00:00:00.000Z"}

\* catalog entries: a title may be listed as available or as not available
DoomAvailable == GamePassGame("d1", Doom, TRUE)
DoomGone == GamePassGame("d0", Doom, FALSE)
Portal2Available == GamePassGame("p1", Portal2, TRUE)
DoomThe2Available == GamePassGame("t1", DoomThe2, TRUE)

\* the catalogs a refresh may deliver
Catalogs ==
  { <<>>, <<DoomAvailable>>, <<DoomGone>>, <<Portal2Available>>,
    <<DoomAvailable, Portal2Available>>, <<DoomGone, Portal2Available>>,
    <<DoomGone, DoomAvailable>>, <<DoomThe2Available>> }

(***************************************************************************)
(* The run: overrides are loaded or not, then the raw records are          *)
(* processed and suggestions generated (index.ts)                          *)
(***************************************************************************)
\* no function on titles has been called directly
NoCall == arg1 = <<>> /\ arg2 = <<>> /\ result = NoResult

\* no function of xbox-gamepass.ts is called: no data file, no catalog
NoGamePass ==
  /\ ownedXboxFile = Unreadable
  /\ interestsFile = Unreadable
  /\ unavailableFile = Unreadable
  /\ gamePassCatalog = <<>>
  /\ playedGames = <<>>
  /\ run = 0

InitCommon ==
  /\ overrides = NullOverrides
  /\ gameGroups = <<>>
  /\ unifiedGames = <<>>
  /\ suggestions = <<>>
  /\ unified = NoResult
  /\ pc = "start"

Init ==
  /\ InitCommon
  /\ NoCall
  /\ NoGamePass
  /\ \E pool \in {IdentityRecords, PlaytimeRecords} : IsListOf(rawGames, pool)

\* loadOverrides: the file parses, or the catch branch installs the default
LoadOverrides ==
  /\ pc = "start"
  /\ ~overrides.loaded
  /\ \/ overrides' \in OverrideFiles
     \/ overrides' = DefaultOverrides
  /\ UNCHANGED <<rawGames, gameGroups, unifiedGames, suggestions, unified, pc>>
  /\ UNCHANGED <<nameVars, gamePassVars>>

ProcessRawGames ==
  /\ pc = "start"
  /\ gameGroups' = deduplicateGames(rawGames)
  /\ unifiedGames' = processRawGames(rawGames)
  /\ pc' = "processed"
  /\ UNCHANGED <<overrides, rawGames, suggestions, unified>>
  /\ UNCHANGED <<nameVars, gamePassVars>>

GenerateMergeSuggestions ==
  /\ pc = "processed"
  /\ suggestions' = generateMergeSuggestions(rawGames)
  /\ pc' = "suggested"
  /\ UNCHANGED <<overrides, rawGames, gameGroups, unifiedGames, unified>>
  /\ UNCHANGED <<nameVars, gamePassVars>>

Next == LoadOverrides \/ ProcessRawGames \/ GenerateMergeSuggestions

Spec == Init /\ [][Next]_vars

\* the same run on lists of records with similar titles
InitSimilar ==
  /\ InitCommon
  /\ NoCall
  /\ NoGamePass
  /\ IsListOf(rawGames, SimilarRecords)

SpecSimilar == InitSimilar /\ [][Next]_vars

(***************************************************************************)
(* mergeGameGroup called on any group                                      *)
(***************************************************************************)
InitMerge ==
  /\ InitCommon
  /\ NoCall
  /\ NoGamePass
  /\ IsListOf(rawGames, GroupRecords)

\* variant: only a group of one record is merged
MergeGameGroup_SingleOnly ==
  /\ pc = "start"
  /\ unified' = IF Len(rawGames) # 1
                THEN [status |-> "error", message |-> "Cannot merge empty game group"]
                ELSE [status |-> "ok", value |-> mergeGameGroup(rawGames)]
  /\ pc' = "merged"
  /\ UNCHANGED <<overrides, rawGames, gameGroups, unifiedGames, suggestions>>
  /\ UNCHANGED <<nameVars, gamePassVars>>

\* mergeGameGroup(rawGames): throws on the empty group, returns otherwise
MergeGameGroup ==
  /\ pc = "start"
  /\ unified' = IF Len(rawGames) = 0
                THEN [status |-> "error", message |-> "Cannot merge empty game group"]
                ELSE [status |-> "ok", value |-> mergeGameGroup(rawGames)]
  /\ pc' = "merged"
  /\ UNCHANGED <<overrides, rawGames, gameGroups, unifiedGames, suggestions>>
  /\ UNCHANGED <<nameVars, gamePassVars>>

NextMerge == LoadOverrides \/ MergeGameGroup

SpecMerge == InitMerge /\ [][NextMerge]_vars

(***************************************************************************)
(* The functions on titles called directly on any two titles, with the     *)
(* overrides loaded or not                                                 *)
(***************************************************************************)
InitNames ==
  /\ InitCommon
  /\ rawGames = <<>>
  /\ arg1 \in NameInputs
  /\ arg2 \in NameInputs
  /\ result = NoResult
  /\ NoGamePass

\* normalizeGameName(arg1)
NormalizeGameName ==
  /\ pc = "start"
  /\ result' = [op |-> "normalizeGameName", value |-> normalizeGameName(arg1)]
  /\ pc' = "returned"
  /\ UNCHANGED <<overrides, rawGames, gameGroups, unifiedGames, suggestions,
                 unified, arg1, arg2, gamePassVars>>

\* calculateNameSimilarity(arg1, arg2)
CalculateNameSimilarity ==
  /\ pc = "start"
  /\ result' = [op |-> "calculateNameSimilarity",
                value |-> calculateNameSimilarity(arg1, arg2)]
  /\ pc' = "returned"
  /\ UNCHANGED <<overrides, rawGames, gameGroups, unifiedGames, suggestions,
                 unified, arg1, arg2, gamePassVars>>

\* shouldForceMerge(arg1, arg2)
ShouldForceMerge ==
  /\ pc = "start"
  /\ result' = [op |-> "shouldForceMerge", value |-> shouldForceMerge(arg1, arg2)]
  /\ pc' = "returned"
  /\ UNCHANGED <<overrides, rawGames, gameGroups, unifiedGames, suggestions,
                 unified, arg1, arg2, gamePassVars>>

NextNames ==
  LoadOverrides \/ NormalizeGameName \/ CalculateNameSimilarity \/ ShouldForceMerge

SpecNames == InitNames /\ [][NextNames]_vars

(***************************************************************************)
(* The functions of xbox-gamepass.ts: called on the data files, a catalog  *)
(* and the played records; the report of a run is saved and read by the    *)
(* next run, after the catalog has been refreshed                          *)
(***************************************************************************)
InitGamePass ==
  /\ InitCommon
  /\ rawGames = <<>>
  /\ NoCall
  /\ ownedXboxFile \in OwnedXboxFiles
  /\ interestsFile \in InterestsFiles
  /\ unavailableFile = Unreadable
  /\ gamePassCatalog \in Catalogs
  /\ IsPlayedList(playedGames)
  /\ run = 1

\* the engine's variables and the inputs of a run stay as they are
UnchangedByCall ==
  UNCHANGED <<overrides, rawGames, gameGroups, unifiedGames, suggestions, unified,
              arg1, arg2, ownedXboxFile, interestsFile, gamePassCatalog, playedGames, run>>

\* resolveXboxSource(game.name, gamePassCatalog) for a played record
ResolveXboxSource ==
  /\ pc = "start"
  /\ \E i \in 1..Len(playedGames) :
       result' = [op |-> "resolveXboxSource", game |-> playedGames[i],
                  value |-> resolveXboxSource(playedGames[i].name, gamePassCatalog)]
  /\ pc' = "returned"
  /\ UnchangedByCall
  /\ UNCHANGED unavailableFile

\* shouldSyncToNotion(game, gamePassCatalog) for a played record
ShouldSyncToNotion ==
  /\ pc = "start"
  /\ \E i \in 1..Len(playedGames) :
       result' = [op |-> "shouldSyncToNotion", game |-> playedGames[i],
                  value |-> shouldSyncToNotion(playedGames[i], gamePassCatalog)]
  /\ pc' = "returned"
  /\ UnchangedByCall
  /\ UNCHANGED unavailableFile

\* getInterestGamesToSync(gamePassCatalog, playedGames)
GetInterestGamesToSync ==
  /\ pc = "start"
  /\ result' = [op |-> "getInterestGamesToSync",
                value |-> getInterestGamesToSync(gamePassCatalog, playedGames)]
  /\ pc' = "returned"
  /\ UnchangedByCall
  /\ UNCHANGED unavailableFile

\* variant: a data file that cannot be read makes the call fail
ProcessGamePassAvailability_NoCatch ==
  /\ pc = "start"
  /\ \E now \in Times :
       result' = IF ownedXboxFile.readable /\ interestsFile.readable /\ unavailableFile.readable
                 THEN [op |-> "processGamePassAvailability",
                       value |-> processGamePassAvailability(playedGames, gamePassCatalog, now)]
                 ELSE [op |-> "processGamePassAvailability", error |-> "ENOENT"]
  /\ pc' = "returned"
  /\ UnchangedByCall
  /\ UNCHANGED unavailableFile

\* processGamePassAvailability(playedGames, gamePassCatalog)
ProcessGamePassAvailability ==
  /\ pc = "start"
  /\ \E now \in Times :
       result' = [op |-> "processGamePassAvailability",
                  value |-> processGamePassAvailability(playedGames, gamePassCatalog, now)]
  /\ pc' = "returned"
  /\ UnchangedByCall
  /\ UNCHANGED unavailableFile

\* saveUnavailableGames(unavailable) with the report just computed
SaveUnavailableGames ==
  /\ pc = "returned"
  /\ result.op = "processGamePassAvailability"
  /\ unavailableFile' = Readable(result.value.unavailable)
  /\ pc' = "saved"
  /\ UnchangedByCall
  /\ UNCHANGED result

\* the next run: the catalog is fetched again
FetchCatalog ==
  /\ pc = "saved"
  /\ run < MaxRuns
  /\ gamePassCatalog' \in Catalogs
  /\ run' = run + 1
  /\ result' = NoResult
  /\ pc' = "start"
  /\ UNCHANGED <<overrides, rawGames, gameGroups, unifiedGames, suggestions, unified,
                 arg1, arg2, ownedXboxFile, interestsFile, unavailableFile, playedGames>>

NextGamePass ==
  \/ ResolveXboxSource
  \/ ShouldSyncToNotion
  \/ GetInterestGamesToSync
  \/ ProcessGamePassAvailability
  \/ SaveUnavailableGames
  \/ FetchCatalog

SpecGamePass == InitGamePass /\ [][NextGamePass]_vars

(***************************************************************************)
(* Properties                                                              *)
(***************************************************************************)
\* processRawGames has returned
Done == pc \in {"processed", "suggested"}

\* mergeGameGroup(rawGames) has returned a record
Merged == pc = "merged" /\ unified.status = "ok"

Records == {rawGames[i] : i \in 1..Len(rawGames)}

NoId(game) == ~(game.steamAppId > 0)

InGroup(k, game) ==
  \E i \in 1..Len(gameGroups[k].games) : gameGroups[k].games[i] = game

Together(a, b) == \E k \in 1..Len(gameGroups) : InGroup(k, a) /\ InGroup(k, b)

SameNormalForm(a, b) == normalizeGameName(a.name) = normalizeGameName(b.name)

HighlySimilar(a, b) == AtLeast(calculateNameSimilarity(a.name, b.name), 85)

RECURSIVE SumUnified(_, _)
SumUnified(games, i) ==
  IF i > Len(games) THEN 0
  ELSE (IF games[i].playtimeHours > 0 THEN games[i].playtimeHours ELSE 0)
         + SumUnified(games, i + 1)

\* C1: the playtime of the unified games returned by processRawGames sums
\* to the playtime of the input records (missing counted as 0)
C1_PlaytimeConserved ==
  Done => SumUnified(unifiedGames, 1) = SumPlaytime(rawGames, 1)

\* C2: all records that carry the same steamAppId are in exactly one group,
\* the one keyed steam:<id>, whatever their titles and sources and whatever
\* else is in the list
C2_SameSteamAppIdOneGroup ==
  Done =>
    \A id \in SteamAppIds :
      LET carriers == {r \in Records : r.steamAppId = id}
      IN carriers # {} =>
           \E k \in 1..Len(gameGroups) :
             /\ gameGroups[k].key = SteamKey(id)
             /\ \A r \in carriers :
                  /\ InGroup(k, r)
                  /\ \A j \in 1..Len(gameGroups) : j # k => ~InGroup(j, r)

\* two records of one ID with different titles and sources, after a record
\* without ID, share the group steam:<id>
C2_Witness ==
  /\ Done
  /\ Len(rawGames) = 3
  /\ NoId(rawGames[1])
  /\ rawGames[2].steamAppId = 400 /\ rawGames[3].steamAppId = 400
  /\ rawGames[2].name # rawGames[3].name
  /\ rawGames[2].source # rawGames[3].source
  /\ Together(rawGames[2], rawGames[3])

\* C3: any two records without a numeric ID whose titles have equal normal
\* forms end up in the same group, wherever they occur in the list
C3_EqualNormalFormsGrouped ==
  Done =>
    \A a, b \in Records :
      (a # b /\ NoId(a) /\ NoId(b) /\ SameNormalForm(a, b)) => Together(a, b)

C5_ForceMergeNeverVetoed ==
  Done =>
    \A a, b \in Records :
      (a # b /\ NoId(a) /\ NoId(b) /\ Truthy(shouldForceMerge(a.name, b.name)))
        => Together(a, b)

\* C6: no pair of records of one group is reported as a suggestion
C6_GroupedPairNeverSuggested ==
  pc = "suggested" =>
    \A n \in 1..Len(suggestions) :
      \A a, b \in Records :
        (/\ a # b
         /\ suggestions[n].games = <<a.name, b.name>>
         /\ suggestions[n].sources = <<a.source, b.source>>)
          => ~Together(a, b)

Reorderings(n) == {p \in [1..n -> 1..n] : \A i, j \in 1..n : p[i] = p[j] => i = j}

\* C7: mergeGameGroup returns the same canonicalId and primarySource for
\* every permutation of the group
C7_MergeOrderIndependent ==
  Merged =>
    \A p \in Reorderings(Len(rawGames)) :
      LET other == mergeGameGroup([i \in 1..Len(rawGames) |-> rawGames[p[i]]])
      IN /\ other.canonicalId = unified.value.canonicalId
         /\ other.primarySource = unified.value.primarySource

\* C8: the canonicalId is steam:<id> whenever any contributor carries a
\* steamAppId, and the slug of a contributor's title only when none does
C8_CanonicalIdFromAnySteamAppId ==
  Merged =>
    IF \E r \in Records : r.steamAppId > 0
    THEN \E r \in Records :
           r.steamAppId > 0 /\ unified.value.canonicalId = SteamId(r.steamAppId)
    ELSE \E r \in Records :
           unified.value.canonicalId = SlugId(generateCanonicalId(r.name))

Owned == {unified.value.ownedSources[i] : i \in 1..Len(unified.value.ownedSources)}

Sources == {r.source : r \in Records}

\* C9: with an xbox record in the group ownedSources has no gamepass;
\* without one it is exactly the set of the contributors' sources
C9_XboxExcludesGamepass ==
  Merged =>
    IF "xbox" \in Sources THEN "gamepass" \notin Owned ELSE Owned = Sources

\* a group with xbox and gamepass records has been merged
C9_Witness ==
  Merged /\ "xbox" \in Sources /\ "gamepass" \in Sources

\* C10: ownedSources is never empty, has no duplicates and contains
\* primarySource
C10_OwnedSourcesHoldPrimary ==
  Merged =>
    /\ Len(unified.value.ownedSources) > 0
    /\ Cardinality(Owned) = Len(unified.value.ownedSources)
    /\ unified.value.primarySource \in Owned

\* the exclusion rule has removed gamepass from a group with several
\* records of one source
C10_Witness ==
  /\ Merged
  /\ "gamepass" \in Sources /\ "gamepass" \notin Owned
  /\ Cardinality(Sources) < Len(rawGames)

UnifiedGameFields ==
  {"canonicalId", "name", "primarySource", "ownedSources", "steamAppId",
   "playtimeHours", "coverImageUrl", "releaseDate", "genres"}

\* C12: mergeGameGroup fails, with the empty-group error, exactly when the
\* group is empty; for a non-empty group it returns a record with every
\* field, a source as primarySource and a non-empty ownedSources
C12_FailsOnlyOnEmptyGroup ==
  pc = "merged" =>
    /\ unified.status \in {"ok", "error"}
    /\ (unified.status = "error") <=> (Len(rawGames) = 0)
    /\ unified.status = "error" =>
         unified.message = "Cannot merge empty game group"
    /\ unified.status = "ok" =>
         /\ DOMAIN unified.value = UnifiedGameFields
         /\ unified.value.primarySource \in Source
         /\ Len(unified.value.ownedSources) > 0
         /\ unified.value.name \in Titles

\* the empty group has been refused
C12_Witness ==
  pc = "merged" /\ Len(rawGames) = 0 /\ unified.status = "error"

\* a direct call of the function op has returned
Returned(op) == pc = "returned" /\ result.op = op

\* C13: normalizing a normalized title changes nothing
C13_NormalizeIdempotent ==
  Returned("normalizeGameName") => normalizeGameName(result.value) = result.value

\* the titles made of the base title Doom followed by qualifiers
QualifiedDoom == {DoomGoty, DoomComplete, DoomCompleteEdition, DoomGameOfTheYearEdition}

\* C14: a title followed by edition/release qualifiers has the normal form
\* of the title alone
C14_QualifiersRemoved ==
  (Returned("normalizeGameName") /\ arg1 \in QualifiedDoom)
    => result.value = normalizeGameName(Doom)

\* C15: the similarity is a defined number of [0, 1], the same for both
\* orders of the titles, and 1 for a title and itself
C15_SimilaritySymmetricReflexive ==
  Returned("calculateNameSimilarity") =>
    /\ result.value.den > 0
    /\ 0 <= result.value.num /\ result.value.num <= result.value.den
    /\ calculateNameSimilarity(arg2, arg1) = result.value
    /\ arg1 = arg2 => result.value.num = result.value.den
    /\ calculateNameSimilarity(arg1, arg1).num = calculateNameSimilarity(arg1, arg1).den

\* the two titles differ, one has the empty normal form, and the
\* similarity is 0
C15_Witness ==
  /\ Returned("calculateNameSimilarity")
  /\ arg1 # arg2
  /\ normalizeGameName(arg1) = <<>> /\ normalizeGameName(arg2) # <<>>
  /\ result.value.num = 0

\* a rule covers a title: a normalized variant equals the normalized title
\* or one contains the other
RuleCovers(rule, name) ==
  \E k \in 1..Len(rule.games) :
    \/ normalizeGameName(rule.games[k]) = normalizeGameName(name)
    \/ Includes(normalizeGameName(rule.games[k]), normalizeGameName(name))
    \/ Includes(normalizeGameName(name), normalizeGameName(rule.games[k]))

\* the loaded rules that cover both titles
CoveringRules ==
  {r \in 1..Len(overrides.forceMerge) :
     RuleCovers(overrides.forceMerge[r], arg1) /\ RuleCovers(overrides.forceMerge[r], arg2)}

\* C16: shouldForceMerge returns null exactly when no loaded rule covers
\* both titles, and otherwise the canonicalName of the first covering rule,
\* or its first variant when it has no canonicalName
C16_ForceMergeIffRuleCoversBoth ==
  Returned("shouldForceMerge") =>
    IF CoveringRules = {}
    THEN result.value = Null
    ELSE LET rule == overrides.forceMerge[Least(CoveringRules)]
         IN /\ ~result.value.isNull
            /\ result.value.value =
                 IF rule.canonicalName # <<>> THEN rule.canonicalName ELSE rule.games[1]

\* a pair covered by containment only, by the rule without canonicalName
C16_Witness ==
  /\ Returned("shouldForceMerge")
  /\ arg1 = DoomComplete /\ arg2 = Portal3
  /\ result.value = Str(Doom)

(***************************************************************************)
(* Subscription eligibility (xbox-gamepass.ts)                             *)
(***************************************************************************)
\* the last call was the function op and has returned
Called(op) == pc \in {"returned", "saved"} /\ result.op = op

\* the normalized form of the title is in the owned-Xbox list
OwnedTitle(name) ==
  /\ ownedXboxFile.readable
  /\ \E i \in 1..Len(ownedXboxFile.content) :
       normalizeGameName(ownedXboxFile.content[i]) = normalizeGameName(name)

\* the catalog holds an entry with available = true and the same normalized title
InCatalog(name) ==
  \E i \in 1..Len(gamePassCatalog) :
    /\ gamePassCatalog[i].available
    /\ normalizeGameName(gamePassCatalog[i].title) = normalizeGameName(name)

\* C17: owned is terminal: for a title whose normalized form is in the
\* owned-Xbox list, shouldSyncToNotion returns true for its xbox/gamepass
\* record, resolveXboxSource returns 'xbox', and no record that
\* getInterestGamesToSync emits for the title carries the source 'gamepass'
C17_OwnedIsTerminal ==
  /\ Called("shouldSyncToNotion")
       /\ result.game.source \in {"xbox", "gamepass"}
       /\ OwnedTitle(result.game.name)
       => result.value = TRUE
  /\ Called("resolveXboxSource") /\ OwnedTitle(result.game.name)
       => result.value = "xbox"
  /\ Called("getInterestGamesToSync")
       => \A i \in 1..Len(result.value) :
            OwnedTitle(result.value[i].name) => result.value[i].source # "gamepass"

\* the titles of the interest list, as written in the file
InterestTitles ==
  IF interestsFile.readable THEN Elements(interestsFile.content) ELSE {}

\* a name in a result is the title, or its normalized form
IsTitle(name, title) ==
  name = normalizeGameName(title) \/ normalizeGameName(name) = normalizeGameName(title)

\* the positions of a list of records or entries that name the title
Naming(list, title) == {i \in 1..Len(list) : IsTitle(list[i].name, title)}

PlayedAndGone(game) ==
  /\ game.source \in {"xbox", "gamepass"}
  /\ ~OwnedTitle(game.name)
  /\ ~InCatalog(game.name)

\* C19: played but left the catalog: for every played record of source
\* 'xbox' or 'gamepass' whose title is not owned and has no available
\* catalog entry, shouldSyncToNotion returns false and
\* processGamePassAvailability records an unavailable entry for it with
\* reason 'left-catalog' and wasPlayed = true
C19_PlayedLeftCatalog ==
  /\ Called("shouldSyncToNotion") /\ PlayedAndGone(result.game)
       => result.value = FALSE
  /\ Called("processGamePassAvailability") =>
       \A g \in 1..Len(playedGames) :
         PlayedAndGone(playedGames[g]) =>
           \E i \in Naming(result.value.unavailable, playedGames[g].name) :
             /\ result.value.unavailable[i].reason = "left-catalog"
             /\ result.value.unavailable[i].wasPlayed = TRUE

\* processGamePassAvailability has returned and its report is not saved yet
Processed == pc = "returned" /\ result.op = "processGamePassAvailability"

\* the unavailable report that the previous run saved
PreviousReport == IF unavailableFile.readable THEN unavailableFile.content ELSE <<>>

\* the current catalog has an available entry for the name of a report entry
AvailableNow(name) ==
  \E i \in 1..Len(gamePassCatalog) :
    gamePassCatalog[i].available /\ IsTitle(name, gamePassCatalog[i].title)

\* C20: returned titles: every title of the previous run's unavailable
\* report, whatever its reason, that has an available entry in the current
\* catalog is listed in returned and not in the new unavailable list,
\* whether or not it is in the interest list
C20_ReturnedTitles ==
  Processed =>
    \A u \in 1..Len(PreviousReport) :
      AvailableNow(PreviousReport[u].name) =>
        /\ \E j \in 1..Len(result.value.returned) :
             IsTitle(result.value.returned[j], PreviousReport[u].name)
        /\ Naming(result.value.unavailable, PreviousReport[u].name) = {}

\* C21: eligibility resolution is deterministic: the records to sync, the
\* unavailable entries, field for field, and the returned list are the same
\* for any two calls on the same played records, catalog, owned list,
\* interest list and previous report, whenever the calls are made
C21_EligibilityDeterministic ==
  /\ Processed =>
       \A now \in Times :
         processGamePassAvailability(playedGames, gamePassCatalog, now) = result.value
  /\ Called("getInterestGamesToSync") /\ pc = "returned" =>
       getInterestGamesToSync(gamePassCatalog, playedGames) = result.value

\* the last call has completed with a value
Completed(op) == Called(op) /\ "value" \in DOMAIN result

\* the entries that processGamePassAvailability returns when nothing is
\* owned: one per played Xbox record without an available catalog entry
NothingOwned(entries) ==
  \A g \in 1..Len(playedGames) :
    (playedGames[g].source = "xbox" /\ ~InCatalog(playedGames[g].name)) =>
      \E i \in Naming(entries, playedGames[g].name) : entries[i].reason = "left-catalog"

\* C22: a data file that cannot be read or parsed is no failure: the four
\* functions complete, and give what they give with nothing owned (owned
\* file), no interests (interests file) and no previous entries (report)
C22_MissingSnapshotsNonFatal ==
  /\ \A op \in {"resolveXboxSource", "shouldSyncToNotion",
                "processGamePassAvailability", "getInterestGamesToSync"} :
       Called(op) => Completed(op)
  /\ ~ownedXboxFile.readable =>
       /\ Called("resolveXboxSource") =>
            result.value = IF InCatalog(result.game.name) THEN "gamepass" ELSE "xbox"
       /\ Called("shouldSyncToNotion") =>
            result.value = (result.game.source \notin {"xbox", "gamepass"}
                              \/ InCatalog(result.game.name))
       /\ Called("processGamePassAvailability") => NothingOwned(result.value.unavailable)
  /\ ~interestsFile.readable =>
       /\ Called("getInterestGamesToSync") => result.value = <<>>
       /\ Called("processGamePassAvailability") =>
            /\ result.value.returned = <<>>
            /\ \A i \in 1..Len(result.value.unavailable) :
                 result.value.unavailable[i].reason = "left-catalog"
  /\ (Processed /\ ~unavailableFile.readable) => result.value.returned = <<>>

\* no data file could be read and a played Xbox record that is not in the
\* catalog was reported
C22_Witness ==
  /\ Processed
  /\ ~ownedXboxFile.readable /\ ~interestsFile.readable /\ ~unavailableFile.readable
  /\ Len(result.value.unavailable) = 1

\* generateMergeSuggestions has returned
Suggested == pc = "suggested"

\* the places of the suggestions, first or second, filled by a record of
\* this title and source
PlacesOf(name, source) ==
  {<<n, side>> \in (1..Len(suggestions)) \X {1, 2} :
     suggestions[n].games[side] = name /\ suggestions[n].sources[side] = source}

\* the records of the input list with this title and source
RecordsOf(name, source) ==
  {i \in 1..Len(rawGames) : rawGames[i].name = name /\ rawGames[i].source = source}

\* C24: each input record appears in at most one suggestion, so there are
\* at most half as many suggestions as input records
C24_OneSuggestionPerRecord ==
  Suggested =>
    /\ \A i \in 1..Len(rawGames) :
         Cardinality(PlacesOf(rawGames[i].name, rawGames[i].source))
           <= Cardinality(RecordsOf(rawGames[i].name, rawGames[i].source))
    /\ 2 * Len(suggestions) <= Len(rawGames)

\* C23: every suggestion pairs two records of different sources and
\* reports a similarity of at least 0.85 and below 1.0 (the reported
\* similarity is held in hundredths)
C23_SuggestionsAcrossSourcesInBand ==
  Suggested =>
    \A n \in 1..Len(suggestions) :
      /\ suggestions[n].sources[1] # suggestions[n].sources[2]
      /\ 85 <= suggestions[n].similarity
      /\ suggestions[n].similarity < 100

\* the reason of the spec for a reported similarity, in hundredths
ReasonOfBand(hundredths) ==
  IF hundredths >= 95
  THEN "Substring match - likely same game with different edition name"
  ELSE IF hundredths >= 90
       THEN "Very high similarity - likely same game with minor name variation"
       ELSE "High similarity - possibly same game or related (e.g., sequel)"

\* C25: the reason of every suggestion is the one of the band of the
\* similarity reported in the same suggestion: substring/edition from 0.95,
\* very high similarity in [0.90, 0.95), high similarity in [0.85, 0.90)
C25_ReasonMatchesReportedBand ==
  Suggested =>
    \A n \in 1..Len(suggestions) :
      suggestions[n].reason = ReasonOfBand(suggestions[n].similarity)

\* C26: name matching only looks at groups that were not formed by the
\* numeric-ID key: no record without a steamAppId is in a group keyed
\* steam:<id>, whatever its title
C26_NoIdNeverInSteamGroup ==
  Done =>
    \A k \in 1..Len(gameGroups) :
      gameGroups[k].key.kind = "steam" =>
        \A i \in 1..Len(gameGroups[k].games) : ~NoId(gameGroups[k].games[i])

\* the contributors of the merged group, sorted by source priority
Contributors == SortByPriority(rawGames)

\* C27: the name returned by mergeGameGroup is the primary contributor's
\* title, unless the group has more than one contributor and
\* shouldForceMerge of the titles of the first two contributors is not
\* null: then it is that canonical name; contributors beyond the first two
\* never influence the name
C27_NameFromFirstTwoContributors ==
  Merged =>
    unified.value.name =
      IF /\ Len(Contributors) > 1
         /\ Truthy(shouldForceMerge(Contributors[1].name, Contributors[2].name))
      THEN shouldForceMerge(Contributors[1].name, Contributors[2].name).value
      ELSE Contributors[1].name

\* the places, group and position, at which a record is in the groups
PlacesInGroups(game) ==
  {<<k, i>> \in (1..Len(gameGroups)) \X (1..MaxGames) :
     i <= Len(gameGroups[k].games) /\ gameGroups[k].games[i] = game}

\* C28: deduplicateGames partitions its input: every input record is in
\* exactly one group, at one position; every group is non-empty, holds
\* input records only and keeps them in input order
C28_GroupsPartitionInput ==
  Done =>
    /\ \A r \in 1..Len(rawGames) : Cardinality(PlacesInGroups(rawGames[r])) = 1
    /\ \A k \in 1..Len(gameGroups) :
         /\ Len(gameGroups[k].games) > 0
         /\ \A i \in 1..Len(gameGroups[k].games) : gameGroups[k].games[i] \in Records
         /\ \A i, j \in 1..Len(gameGroups[k].games) :
              i < j => gameGroups[k].games[i].externalId < gameGroups[k].games[j].externalId

\* C29: the unified games returned by processRawGames have pairwise
\* distinct canonicalId values, of the form steam:<id> or of the slug form
C29_CanonicalIdsDistinct ==
  Done =>
    \A i, j \in 1..Len(unifiedGames) :
      i # j => unifiedGames[i].canonicalId # unifiedGames[j].canonicalId

\* the grouping of a Map: the sets of records of its groups
GroupingOf(groups) ==
  {{groups[k].games[i] : i \in 1..Len(groups[k].games)} : k \in 1..Len(groups)}

\* the input list in another order
Reordered(p) == [i \in 1..Len(rawGames) |-> rawGames[p[i]]]

\* C30: the grouping computed by deduplicateGames does not depend on the
\* order of the input: every permutation of the list gives groups with the
\* same sets of records
C30_GroupingOrderIndependent ==
  Done =>
    \A p \in Reorderings(Len(rawGames)) :
      GroupingOf(deduplicateGames(Reordered(p))) = GroupingOf(gameGroups)

====
